---- MODULE Spec2Model ----
(***************************************************************************)
(* A model of sqliteshelf.py: SQLiteDict, a dict stored in one table of a  *)
(* SQLite database, and the class-level cache that shares one sqlite3      *)
(* connection per filename among the SQLiteDicts opened on it.             *)
(*                                                                         *)
(* The sqlite3 connection is modelled by what the program can observe of   *)
(* it: the contents visible through the connection (committed work plus    *)
(* the pending transaction), the contents last committed, and, for a real  *)
(* file, the contents on disk that a later connection starts from.         *)
(***************************************************************************)
EXTENDS Integers, Sequences, FiniteSets, TLC

\* Number of SQLiteDict objects that can be alive at once.
MaxMaps == 2

MapIds == 1..MaxMaps

\* Python's None, the value of self.conn after close().
None == 0

\* Identities of connection objects; None is not one of them.
ConnIds == 1..(2 * MaxMaps + 2)

\* The default filename of __init__: a private in-memory database.
Memory == ":memory:"

DiskFiles == {"test.sdb"}

Filenames == DiskFiles \cup {Memory}

\* The default table of __init__ and the second table of the doctest.
DefaultTable == "shelf"

Tables == {DefaultTable, "othertable"}

\* The (filename, table) pairs the callers open: shelves in one database
\* file, and shelves in memory.
OpenInputs == DiskFiles \X Tables

MemoryInputs == {Memory} \X Tables

\* The keys the callers use and the (key, item) pairs they store.
Keys == {"a"}

SetInputs == {<<"a", "moo">>}

VARIABLES
    maps,                   \* the SQLiteDict objects: MapIds -> fields
    connection_cache,       \* SQLiteDict.connection_cache: filename -> connection
    connection_references,  \* SQLiteDict.connection_references: filename -> count
    connections,            \* the sqlite3 connection objects still referenced
    disk,                   \* committed contents of each database file
    ret                     \* the last call: operation, arguments, outcome

vars == <<maps, connection_cache, connection_references, connections, disk, ret>>

(***************************************************************************)
(* Database contents: a function from the existing tables to their rows,   *)
(* the rows of a table being a function from its keys to their values (the *)
(* unique index on key makes it a function).                               *)
(***************************************************************************)
EmptyRows == [k \in {} |-> ""]

EmptyDB == [t \in {} |-> EmptyRows]

\* CREATE TABLE IF NOT EXISTS t ...; CREATE UNIQUE INDEX IF NOT EXISTS ...
CreateTable(db, t) ==
    IF t \in DOMAIN db
    THEN db
    ELSE [u \in DOMAIN db \cup {t} |-> IF u = t THEN EmptyRows ELSE db[u]]

\* REPLACE run against every table of the database, not only t.
ReplaceInto_every_table(db, t, k, v) ==
    [u \in DOMAIN db |-> [j \in DOMAIN db[u] \cup {k} |-> IF j = k THEN v ELSE db[u][j]]]

\* INSERT OR IGNORE in place of REPLACE: a row already there keeps its value.
ReplaceInto_ignore(db, t, k, v) ==
    [db EXCEPT ![t] = [j \in DOMAIN @ \cup {k} |-> IF j \in DOMAIN @ THEN @[j] ELSE v]]

\* REPLACE INTO t (key, value) VALUES (k, v)
ReplaceInto(db, t, k, v) ==
    [db EXCEPT ![t] = [j \in DOMAIN @ \cup {k} |-> IF j = k THEN v ELSE @[j]]]

\* DELETE without its WHERE clause: every row of t goes.
DeleteFrom_all(db, t, k) ==
    [db EXCEPT ![t] = EmptyRows]

\* DELETE FROM t WHERE key = k
DeleteFrom(db, t, k) ==
    [db EXCEPT ![t] = [j \in DOMAIN @ \ {k} |-> @[j]]]

\* The keys of a set of strings in ascending order (ORDER BY key); the keys
\* of the model are single letters, compared by their rank in the alphabet.
Rank(k) == IF k = "a" THEN 1 ELSE 2

RECURSIVE OrderBy(_)
OrderBy(S) ==
    IF S = {}
    THEN <<>>
    ELSE LET least == CHOOSE k \in S : \A j \in S : Rank(k) <= Rank(j)
         IN  <<least>> \o OrderBy(S \ {least})

(***************************************************************************)
(* The process state the methods act on, threaded through the calls a      *)
(* method makes: H = [cache, refs, conns, disk, calls], calls being the    *)
(* connect/commit/close calls made on connections so far in the method.    *)
(***************************************************************************)
Here == [cache |-> connection_cache, refs |-> connection_references,
         conns |-> connections, disk |-> disk, calls |-> <<>>]

\* sqlite3.connect(filename): a new connection object; a file's connection
\* sees what is on disk, an in-memory one starts empty.
NewConn(H) ==
    CHOOSE c \in ConnIds : /\ c \notin DOMAIN H.conns
                           /\ \A d \in ConnIds : d \notin DOMAIN H.conns => c <= d

Connect(H, filename) ==
    LET c  == NewConn(H)
        db == IF filename = Memory THEN EmptyDB ELSE H.disk[filename]
        o  == [filename |-> filename, closed |-> FALSE, in_transaction |-> FALSE,
               visible |-> db, committed |-> db]
    IN  [H EXCEPT !.conns = [d \in DOMAIN @ \cup {c} |-> IF d = c THEN o ELSE @[d]],
                  !.calls = Append(@, <<c, "connect">>)]

\* The end of connection c's transaction: what is visible through c becomes
\* its committed contents (and the contents of the file, if there is one).
Durable(H, c) ==
    LET o == H.conns[c]
    IN  [H EXCEPT !.conns[c].committed = o.visible,
                  !.conns[c].in_transaction = FALSE,
                  !.disk = IF o.filename \in DiskFiles
                           THEN [@ EXCEPT ![o.filename] = o.visible]
                           ELSE @]

\* conn.commit()
Commit(H, c) == [Durable(H, c) EXCEPT !.calls = Append(@, <<c, "commit">>)]

\* conn.close(): the pending transaction is dropped with the connection.
CloseConn(H, c) ==
    [H EXCEPT !.conns[c] = [@ EXCEPT !.closed = TRUE,
                                     !.in_transaction = FALSE,
                                     !.visible = EmptyDB,
                                     !.committed = EmptyDB],
              !.calls = Append(@, <<c, "close">>)]

\* conn.execute of REPLACE or DELETE: sqlite3 opens a transaction before the
\* statement if none is open; the change is visible through c, not committed.
ExecuteDML(H, c, db) ==
    [H EXCEPT !.conns[c].visible = db, !.conns[c].in_transaction = TRUE]

\* CREATE run as sqlite3 runs REPLACE and DELETE: inside a transaction it
\* opens if none is open, committed by nothing.
ExecuteDDL_deferred(H, c, t, implicit) ==
    [H EXCEPT !.conns[c].visible = CreateTable(@, t),
              !.conns[c].in_transaction = TRUE]

\* conn.execute of CREATE TABLE / CREATE INDEX. With no transaction open the
\* statement is committed as it runs. With one open, the sqlite3 module of
\* Python 2 commits it before a DDL statement (implicit), and later versions
\* run the statement inside it.
ExecuteDDL(H, c, t, implicit) ==
    LET H1 == IF implicit /\ H.conns[c].in_transaction THEN Durable(H, c) ELSE H
        H2 == [H1 EXCEPT !.conns[c].visible = CreateTable(@, t)]
    IN  IF H1.conns[c].in_transaction THEN H2 ELSE Durable(H2, c)

\* What conn.execute / conn.cursor / conn.commit raises on self.conn = c:
\* None has no such attribute, and sqlite3 refuses a closed connection.
ConnError(H, c) ==
    IF c = None THEN "AttributeError"
    ELSE IF H.conns[c].closed THEN "ProgrammingError"
    ELSE "ok"

\* What a statement on table t raises when run on self.conn = c.
ExecError(H, c, t) ==
    IF ConnError(H, c) # "ok" THEN ConnError(H, c)
    ELSE IF t \notin DOMAIN H.conns[c].visible THEN "OperationalError"
    ELSE "ok"

(***************************************************************************)
(* The connection cache. A method's result is [H, err] plus what it        *)
(* returns; err is "ok" or the name of the exception raised.               *)
(***************************************************************************)
Put(f, x, y) == [z \in DOMAIN f \cup {x} |-> IF z = x THEN y ELSE f[z]]

Remove(f, x) == [z \in DOMAIN f \ {x} |-> f[z]]

\* get_connection adding its reference only when it makes the connection.
get_connection_counts_once(H, filename) ==
    LET H1 == IF filename \notin DOMAIN H.cache
              THEN [Connect(H, filename) EXCEPT
                        !.cache = Put(@, filename, NewConn(H)),
                        !.refs  = Put(@, filename, 1)]
              ELSE H
    IN  [H |-> H1, conn |-> H1.cache[filename]]

\* get_connection without the cache lookup: every call connects.
get_connection_uncached(H, filename) ==
    LET H1 == [Connect(H, filename) EXCEPT
                   !.cache = Put(@, filename, NewConn(H)),
                   !.refs  = Put(@, filename,
                                 IF filename \in DOMAIN H.refs THEN H.refs[filename] ELSE 0)]
        H2 == [H1 EXCEPT !.refs[filename] = @ + 1]
    IN  [H |-> H2, conn |-> H2.cache[filename]]

get_connection(H, filename) ==
    LET H1 == IF filename \notin DOMAIN H.cache
              THEN [Connect(H, filename) EXCEPT
                        !.cache = Put(@, filename, NewConn(H)),
                        !.refs  = Put(@, filename, 0)]
              ELSE H
        H2 == [H1 EXCEPT !.refs[filename] = @ + 1]
    IN  [H |-> H2, conn |-> H2.cache[filename]]

\* drop_connection without the test of the count: every release closes.
drop_connection_always(H, filename) ==
    IF filename \notin DOMAIN H.refs \/ filename \notin DOMAIN H.cache
    THEN [H |-> H, err |-> "KeyError"]
    ELSE LET H1 == [H EXCEPT !.refs[filename] = @ - 1]
             c  == H1.cache[filename]
         IN  IF H1.conns[c].closed
             THEN [H |-> H1, err |-> "ProgrammingError"]
             ELSE [H |-> [CloseConn(Commit(H1, c), c) EXCEPT
                              !.cache = Remove(@, filename)],
                   err |-> "ok"]

\* drop_connection that closes the last connection and leaves it in the cache.
drop_connection_keeps_entry(H, filename) ==
    IF filename \notin DOMAIN H.refs
    THEN [H |-> H, err |-> "KeyError"]
    ELSE LET H1 == [H EXCEPT !.refs[filename] = @ - 1]
         IN  IF H1.refs[filename] # 0
             THEN [H |-> H1, err |-> "ok"]
             ELSE IF filename \notin DOMAIN H1.cache
             THEN [H |-> H1, err |-> "KeyError"]
             ELSE LET c == H1.cache[filename]
                  IN  IF H1.conns[c].closed
                      THEN [H |-> H1, err |-> "ProgrammingError"]
                      ELSE [H |-> CloseConn(Commit(H1, c), c), err |-> "ok"]

drop_connection(H, filename) ==
    IF filename \notin DOMAIN H.refs
    THEN [H |-> H, err |-> "KeyError"]
    ELSE LET H1 == [H EXCEPT !.refs[filename] = @ - 1]
         IN  IF H1.refs[filename] # 0
             THEN [H |-> H1, err |-> "ok"]
             ELSE IF filename \notin DOMAIN H1.cache
             THEN [H |-> H1, err |-> "KeyError"]
             ELSE LET c == H1.cache[filename]
                  IN  IF H1.conns[c].closed
                      THEN [H |-> H1, err |-> "ProgrammingError"]
                      ELSE [H |-> [CloseConn(Commit(H1, c), c) EXCEPT
                                       !.cache = Remove(@, filename)],
                            err |-> "ok"]

(***************************************************************************)
(* The methods of SQLiteDict, on the fields self of one object.            *)
(***************************************************************************)
\* sync that commits only for an object that is not lazy.
sync_if_eager(H, self) ==
    IF ConnError(H, self.conn) # "ok"
    THEN [H |-> H, err |-> ConnError(H, self.conn)]
    ELSE IF self.lazy THEN [H |-> H, err |-> "ok"]
    ELSE [H |-> Commit(H, self.conn), err |-> "ok"]

\* sync that does nothing on a closed object.
sync_silent(H, self) ==
    IF self.conn = None THEN [H |-> H, err |-> "ok"]
    ELSE IF ConnError(H, self.conn) # "ok"
    THEN [H |-> H, err |-> ConnError(H, self.conn)]
    ELSE [H |-> Commit(H, self.conn), err |-> "ok"]

sync(H, self) ==
    IF ConnError(H, self.conn) # "ok"
    THEN [H |-> H, err |-> ConnError(H, self.conn)]
    ELSE [H |-> Commit(H, self.conn), err |-> "ok"]

\* maybe_sync that never commits.
maybe_sync_skips(H, self) == [H |-> H, err |-> "ok"]

\* maybe_sync that does not look at self.lazy.
maybe_sync_commits(H, self) == sync(H, self)

maybe_sync(H, self) ==
    IF ~self.lazy THEN sync(H, self) ELSE [H |-> H, err |-> "ok"]

getitem(H, self, key) ==
    LET e == ExecError(H, self.conn, self.table)
    IN  IF e # "ok" THEN [err |-> e, val |-> <<>>]
        ELSE LET rows == H.conns[self.conn].visible[self.table]
             IN  IF key \notin DOMAIN rows
                 THEN [err |-> "KeyError", val |-> <<>>]
                 ELSE [err |-> "ok", val |-> <<rows[key]>>]

\* key in self, of DictMixin: self[key] succeeds; only KeyError is caught.
contains(H, self, key) ==
    LET r == getitem(H, self, key)
    IN  IF r.err = "ok" THEN [err |-> "ok", val |-> <<TRUE>>]
        ELSE IF r.err = "KeyError" THEN [err |-> "ok", val |-> <<FALSE>>]
        ELSE [err |-> r.err, val |-> <<>>]

setitem(H, self, key, item) ==
    LET e == ExecError(H, self.conn, self.table)
    IN  IF e # "ok" THEN [H |-> H, err |-> e]
        ELSE maybe_sync(
                 ExecuteDML(H, self.conn,
                     ReplaceInto(H.conns[self.conn].visible, self.table, key, item)),
                 self)

\* __delitem__ finding the key absent from the DELETE's row count: the
\* statement and maybe_sync run before KeyError is raised.
delitem_by_rowcount(H, self, key) ==
    LET r == contains(H, self, key)
        d == maybe_sync(
                 ExecuteDML(H, self.conn,
                     DeleteFrom(H.conns[self.conn].visible, self.table, key)),
                 self)
    IN  IF r.err # "ok" THEN [H |-> H, err |-> r.err]
        ELSE IF d.err # "ok" THEN d
        ELSE IF r.val = <<FALSE>> THEN [H |-> d.H, err |-> "KeyError"]
        ELSE d

delitem(H, self, key) ==
    LET r == contains(H, self, key)
    IN  IF r.err # "ok" THEN [H |-> H, err |-> r.err]
        ELSE IF r.val = <<FALSE>> THEN [H |-> H, err |-> "KeyError"]
        ELSE maybe_sync(
                 ExecuteDML(H, self.conn,
                     DeleteFrom(H.conns[self.conn].visible, self.table, key)),
                 self)

\* keys with ORDER BY key DESC.
keys_descending(H, self) ==
    LET e == ExecError(H, self.conn, self.table)
    IN  IF e # "ok" THEN [err |-> e, val |-> <<>>]
        ELSE LET s == OrderBy(DOMAIN H.conns[self.conn].visible[self.table])
             IN  [err |-> "ok", val |-> [i \in 1..Len(s) |-> s[Len(s) + 1 - i]]]

keys(H, self) ==
    LET e == ExecError(H, self.conn, self.table)
    IN  IF e # "ok" THEN [err |-> e, val |-> <<>>]
        ELSE [err |-> "ok",
              val |-> OrderBy(DOMAIN H.conns[self.conn].visible[self.table])]

\* COUNT(*) taken over the committed rows, not over what the connection sees.
len_committed(H, self) ==
    LET e == ExecError(H, self.conn, self.table)
    IN  IF e # "ok" THEN [err |-> e, val |-> <<>>]
        ELSE [err |-> "ok",
              val |-> <<Cardinality(DOMAIN H.conns[self.conn].committed[self.table])>>]

len(H, self) ==
    LET e == ExecError(H, self.conn, self.table)
    IN  IF e # "ok" THEN [err |-> e, val |-> <<>>]
        ELSE [err |-> "ok",
              val |-> <<Cardinality(DOMAIN H.conns[self.conn].visible[self.table])>>]

\* close without the test of self.conn: every call releases.
close_unguarded(H, self) ==
    LET d == drop_connection(H, self.filename)
    IN  IF d.err # "ok"
        THEN [H |-> d.H, self |-> self, err |-> d.err]
        ELSE [H |-> d.H, self |-> [self EXCEPT !.conn = None], err |-> "ok"]

close(H, self) ==
    IF self.conn # None
    THEN LET d == drop_connection(H, self.filename)
         IN  IF d.err # "ok"
             THEN [H |-> d.H, self |-> self, err |-> d.err]
             ELSE [H |-> d.H, self |-> [self EXCEPT !.conn = None], err |-> "ok"]
    ELSE [H |-> H, self |-> self, err |-> "ok"]

init(H, filename, table, lazy, implicit) ==
    LET g    == get_connection(H, filename)
        self == [alive |-> TRUE, filename |-> filename, table |-> table,
                 lazy |-> lazy, conn |-> g.conn]
        e    == ConnError(g.H, g.conn)
        s    == maybe_sync(ExecuteDDL(g.H, g.conn, table, implicit), self)
    IN  IF e # "ok"
        THEN [H |-> g.H, self |-> self, err |-> e]
        ELSE [H |-> s.H, self |-> self, err |-> s.err]

(***************************************************************************)
(* The calls of the program. Each is one whole method call on the object   *)
(* in slot m. A call that can change something records itself in ret: the  *)
(* method and its arguments, what it found (self.conn, self.filename, the  *)
(* reference count of it, whether a transaction was open on the           *)
(* connection),                                                           *)
(* the exception it raised or "ok", and the connect/commit/close calls it  *)
(* made. The reads return a value and change nothing.                      *)
(***************************************************************************)
\* A slot holding no object.
NoMap == [alive |-> FALSE, filename |-> Memory, table |-> DefaultTable,
          lazy |-> FALSE, conn |-> None]

\* The connection objects something still refers to: the cache or an
\* object's self.conn. Python frees the others.
Referenced(H, ms) ==
    ({H.cache[f] : f \in DOMAIN H.cache} \cup {ms[m].conn : m \in MapIds}) \ {None}

\* connection_references[filename], -1 standing for no entry.
RefCount(filename) ==
    IF filename \in DOMAIN connection_references
    THEN connection_references[filename]
    ELSE -1

\* Whether connection c has an open transaction.
Pending(c) ==
    /\ c \in DOMAIN connections
    /\ connections[c].in_transaction

CachedConn(filename) ==
    IF filename \in DOMAIN connection_cache THEN connection_cache[filename] ELSE None

Return(op, m, args, on, filename, err, calls) ==
    [op |-> op, m |-> m, args |-> args, on |-> on, filename |-> filename,
     refs |-> RefCount(filename),
     pending |-> Pending(IF on = None THEN CachedConn(filename) ELSE on),
     err |-> err, calls |-> calls]

Install(H, ms, r) ==
    /\ maps' = ms
    /\ connection_cache' = H.cache
    /\ connection_references' = H.refs
    /\ connections' = [c \in Referenced(H, ms) |-> H.conns[c]]
    /\ disk' = H.disk
    /\ ret' = r

Init ==
    /\ maps = [m \in MapIds |-> NoMap]
    /\ connection_cache = [f \in {} |-> None]
    /\ connection_references = [f \in {} |-> 0]
    /\ connections = [c \in {} |-> None]
    /\ disk = [f \in DiskFiles |-> EmptyDB]
    /\ ret = [op |-> "start", m |-> None, args |-> <<>>, on |-> None,
              filename |-> Memory, refs |-> -1,
              pending |-> FALSE, err |-> "ok", calls |-> <<>>]

\* m = SQLiteDict(filename, table, lazy=lazy). An exception in __init__
\* leaves no object: the half-built one is finalized at once.
Open(m, filename, table, lazy, implicit) ==
    /\ ~maps[m].alive
    /\ LET r == init(Here, filename, table, lazy, implicit)
           u == IF r.err = "ok"
                THEN [H |-> r.H, self |-> r.self]
                ELSE [H |-> close(r.H, r.self).H, self |-> NoMap]
       IN  Install(u.H, [maps EXCEPT ![m] = u.self],
                   Return("open", m, <<filename, table, lazy>>, None, filename,
                          r.err, u.H.calls))

\* m[key] = item
SetItem(m, key, item) ==
    /\ maps[m].alive
    /\ LET r == setitem(Here, maps[m], key, item)
       IN  Install(r.H, maps,
                   Return("set", m, <<key, item>>, maps[m].conn, maps[m].filename,
                          r.err, r.H.calls))

\* del m[key]
DelItem(m, key) ==
    /\ maps[m].alive
    /\ LET r == delitem(Here, maps[m], key)
       IN  Install(r.H, maps,
                   Return("delete", m, <<key>>, maps[m].conn, maps[m].filename,
                          r.err, r.H.calls))

\* m[key]
GetItem(m, key) ==
    /\ maps[m].alive
    /\ getitem(Here, maps[m], key).err \in {"ok", "KeyError", "AttributeError",
                                            "ProgrammingError", "OperationalError"}
    /\ UNCHANGED vars

\* key in m
Contains(m, key) ==
    /\ maps[m].alive
    /\ contains(Here, maps[m], key).err \in {"ok", "AttributeError",
                                             "ProgrammingError", "OperationalError"}
    /\ UNCHANGED vars

\* len(m)
Length(m) ==
    /\ maps[m].alive
    /\ len(Here, maps[m]).err \in {"ok", "AttributeError",
                                   "ProgrammingError", "OperationalError"}
    /\ UNCHANGED vars

\* m.keys(), list(m)
KeysOf(m) ==
    /\ maps[m].alive
    /\ keys(Here, maps[m]).err \in {"ok", "AttributeError",
                                    "ProgrammingError", "OperationalError"}
    /\ UNCHANGED vars

\* m.sync()
Sync(m) ==
    /\ maps[m].alive
    /\ LET r == sync(Here, maps[m])
       IN  Install(r.H, maps,
                   Return("sync", m, <<>>, maps[m].conn, maps[m].filename,
                          r.err, r.H.calls))

\* m.close()
Close(m) ==
    /\ maps[m].alive
    /\ LET r == close(Here, maps[m])
       IN  Install(r.H, [maps EXCEPT ![m] = r.self],
                   Return("close", m, <<>>, maps[m].conn, maps[m].filename,
                          r.err, r.H.calls))

\* The last reference to m goes away: __del__ calls close(), what it raises
\* is ignored, and the object is gone.
Del(m) ==
    /\ maps[m].alive
    /\ LET r == close(Here, maps[m])
       IN  Install(r.H, [maps EXCEPT ![m] = NoMap],
                   Return("del", m, <<>>, maps[m].conn, maps[m].filename,
                          "ok", r.H.calls))

\* Any call on an existing object.
Use(m) ==
    \/ \E i \in SetInputs : SetItem(m, i[1], i[2])
    \/ \E key \in Keys : DelItem(m, key)
    \/ \E key \in Keys : GetItem(m, key)
    \/ \E key \in Keys : Contains(m, key)
    \/ Length(m)
    \/ KeysOf(m)
    \/ Sync(m)
    \/ Close(m)
    \/ Del(m)

\* Shelves in one database file.
Next ==
    \E m \in MapIds :
        \/ \E i \in OpenInputs, lazy \in BOOLEAN, implicit \in BOOLEAN :
               Open(m, i[1], i[2], lazy, implicit)
        \/ Use(m)

Spec == Init /\ [][Next]_vars

\* Shelves in memory.
NextMemory ==
    \E m \in MapIds :
        \/ \E i \in MemoryInputs, lazy \in BOOLEAN, implicit \in BOOLEAN :
               Open(m, i[1], i[2], lazy, implicit)
        \/ Use(m)

SpecMemory == Init /\ [][NextMemory]_vars

(***************************************************************************)
(* The properties.                                                         *)
(***************************************************************************)
IsOpen(m) == maps[m].alive /\ maps[m].conn # None

IsClosed(m) == maps[m].alive /\ maps[m].conn = None

\* The objects opened on filename and not yet closed.
OpenOn(filename) == {m \in MapIds : IsOpen(m) /\ maps[m].filename = filename}

\* The connections to filename that are not closed.
LiveConns(filename) ==
    {c \in DOMAIN connections :
        connections[c].filename = filename /\ ~connections[c].closed}

\* Every statement of object m runs.
Usable(m) == ExecError(Here, maps[m].conn, maps[m].table) = "ok"

\* Connection c has no uncommitted work: what is visible through it is
\* committed, and on disk if it is a file's.
NothingPending(c) ==
    /\ c \in DOMAIN connections
    /\ ~connections[c].closed
    /\ ~connections[c].in_transaction
    /\ connections[c].committed = connections[c].visible
    /\ connections[c].filename \in DiskFiles =>
           disk[connections[c].filename] = connections[c].visible

\* The call ret made call (commit, close, connect) on some connection.
Made(call) == \E i \in DOMAIN ret.calls : ret.calls[i][2] = call

\* C1: at most one live connection per database file: any two objects open
\* at the same time on the same file hold the same connection object.
C1_OneConnectionPerFile ==
    \A f \in DiskFiles :
        /\ Cardinality(LiveConns(f)) <= 1
        /\ \A m, n \in OpenOn(f) : maps[m].conn = maps[n].conn

\* C1 witness: an open joined the connection another open object holds.
C1_Witness ==
    /\ ret.op = "open" /\ ret.err = "ok" /\ ret.refs = 1 /\ ret.calls = <<>>
    /\ \E n \in OpenOn(ret.filename) :
           n # ret.m /\ IsOpen(ret.m) /\ maps[n].conn = maps[ret.m].conn

\* C2: a connection is never closed while an open object holds it: every
\* open object's connection is the cached one, is not closed and runs the
\* object's statements; and a connection is closed only by close() (or the
\* finalizer) of the last object open on its file.
C2_NoCloseWhileReferenced ==
    /\ \A m \in MapIds :
           IsOpen(m) =>
               /\ maps[m].conn \in DOMAIN connections
               /\ ~connections[maps[m].conn].closed
               /\ CachedConn(maps[m].filename) = maps[m].conn
               /\ Usable(m)
    /\ \A i \in DOMAIN ret.calls :
           ret.calls[i][2] = "close" =>
               /\ ret.op \in {"close", "del"}
               /\ ret.calls[i][1] = ret.on
               /\ OpenOn(ret.filename) = {}

\* C2 witness: one of two objects open on a file was closed, the other is
\* still open on the connection.
C2_Witness ==
    /\ ret.op = "close" /\ ret.on # None /\ ret.err = "ok" /\ ret.refs = 2
    /\ IsClosed(ret.m)
    /\ \E n \in OpenOn(ret.filename) : maps[n].conn = ret.on /\ Usable(n)

\* C3: close() on a closed object (called again, or by the finalizer) raises
\* nothing, releases nothing and changes neither the registry, the
\* connections nor any other object.
C3_CloseIdempotent ==
    [][(ret'.op \in {"close", "del"} /\ ret'.on = None) =>
          /\ ret'.err = "ok"
          /\ ret'.calls = <<>>
          /\ UNCHANGED <<connection_cache, connection_references, connections, disk>>
          /\ \A n \in MapIds \ {ret'.m} : maps'[n] = maps[n]
          /\ ret'.op = "close" => maps' = maps]_vars

\* C3 witness: a second close() of an object whose sibling still holds the
\* shared connection.
C3_Witness ==
    /\ ret.op = "close" /\ ret.on = None /\ ret.err = "ok"
    /\ IsClosed(ret.m)
    /\ RefCount(ret.filename) = 1
    /\ \E n \in OpenOn(ret.filename) : Usable(n)

\* The rows object n sees in its table.
View(n) == connections[maps[n].conn].visible[maps[n].table]

\* C4: two objects opened on ":memory:" are independent: a set or delete
\* through one is never visible through the other.
C4_MemoryMapsIndependent ==
    [][\A m, n \in MapIds :
          (/\ m # n
           /\ IsOpen(m) /\ maps[m].filename = Memory
           /\ IsOpen(n) /\ maps[n].filename = Memory
           /\ ret'.op \in {"set", "delete"} /\ ret'.m = m /\ ret'.err = "ok")
          => View(n)' = View(n)]_vars

\* C5: when a set or delete on an object that is not lazy has returned, the
\* connection has no uncommitted work.
C5_EagerDurable ==
    (ret.op \in {"set", "delete"} /\ ret.err = "ok" /\ ~maps[ret.m].lazy)
        => NothingPending(maps[ret.m].conn)

\* C5 witness: a set on an eager object, made while a transaction of a lazy
\* sibling was open, has left rows on disk.
C5_Witness ==
    /\ ret.op = "set" /\ ret.err = "ok" /\ ~maps[ret.m].lazy /\ ret.pending
    /\ ret.args[1] \in DOMAIN disk[ret.filename][maps[ret.m].table]
    /\ \E n \in OpenOn(ret.filename) : n # ret.m /\ maps[n].lazy

\* C6: when sync() on an open object, lazy or not, has returned, the whole
\* connection is committed, the work of sibling objects included.
C6_SyncCommitsAll ==
    (ret.op = "sync" /\ ret.err = "ok") => NothingPending(ret.on)

\* C6 witness: sync() found a transaction open, and a lazy sibling's rows in
\* another table are on disk after it.
C6_Witness ==
    /\ ret.op = "sync" /\ ret.err = "ok" /\ ret.pending
    /\ \E n \in OpenOn(ret.filename) :
           /\ n # ret.m /\ maps[n].lazy /\ maps[n].table # maps[ret.m].table
           /\ disk[ret.filename][maps[n].table] # EmptyRows
           /\ disk[ret.filename][maps[ret.m].table] = EmptyRows

\* C7: when close() of an open lazy object has returned, what was written
\* through the object is durable, whether or not other objects are still
\* open on the file: the rows of its table on disk are the rows visible.
C7_CloseCommits ==
    (/\ ret.op = "close" /\ ret.on # None /\ ret.err = "ok"
     /\ maps[ret.m].lazy
     /\ ret.filename \in DiskFiles
     /\ \A n \in MapIds \ {ret.m} :
            maps[n].alive /\ maps[n].filename = ret.filename
                => maps[n].table # maps[ret.m].table
     /\ ret.filename \in DOMAIN connection_cache)
        => LET t == maps[ret.m].table
           IN  /\ t \in DOMAIN disk[ret.filename]
               /\ disk[ret.filename][t] =
                      connections[connection_cache[ret.filename]].visible[t]

\* C8: a set or delete on a lazy object commits nothing: the committed
\* contents of every connection and the disk stay as they were; a
\* successful one changes the rows visible in the object's table and leaves
\* a transaction open.
C8_LazyDefers ==
    [][(ret'.op \in {"set", "delete"} /\ maps[ret'.m].lazy) =>
          /\ disk' = disk
          /\ DOMAIN connections' = DOMAIN connections
          /\ \A c \in DOMAIN connections :
                 connections'[c].committed = connections[c].committed
          /\ \A i \in DOMAIN ret'.calls : ret'.calls[i][2] # "commit"
          /\ ret'.err = "ok" =>
                 LET o == connections'[ret'.on]
                     rows == o.visible[maps[ret'.m].table]
                 IN  /\ o.in_transaction
                     /\ ret'.op = "set" =>
                            /\ ret'.args[1] \in DOMAIN rows
                            /\ rows[ret'.args[1]] = ret'.args[2]
                     /\ ret'.op = "delete" => ret'.args[1] \notin DOMAIN rows]_vars

\* C8 witness: a set on a lazy object is visible and not on disk.
C8_Witness ==
    /\ ret.op = "set" /\ ret.err = "ok" /\ maps[ret.m].lazy
    /\ ret.args[1] \in DOMAIN connections[ret.on].visible[maps[ret.m].table]
    /\ ret.args[1] \notin DOMAIN disk[ret.filename][maps[ret.m].table]

\* C9: once every object opened on a filename is closed or finalized, its
\* reference count is 0, its cache entry is gone and no connection to it is
\* left open; the close of the last one committed and closed the connection
\* once; and the next open makes a new connection with reference count 1.
C9_NoLeak ==
    /\ \A f \in Filenames :
           OpenOn(f) = {} =>
               /\ f \notin DOMAIN connection_cache
               /\ RefCount(f) \in {-1, 0}
               /\ LiveConns(f) = {}
    /\ (ret.op \in {"close", "del"} /\ ret.on # None /\ OpenOn(ret.filename) = {})
           => ret.calls = << <<ret.on, "commit">>, <<ret.on, "close">> >>
    /\ (ret.op = "open" /\ ret.err = "ok" /\ ret.refs \in {-1, 0})
           => /\ ret.calls # <<>>
              /\ ret.calls[1] = <<maps[ret.m].conn, "connect">>
              /\ ~Made("close")
              /\ RefCount(ret.filename) = 1

\* C9 witness: a file whose objects had all been closed is opened again.
C9_Witness ==
    /\ ret.op = "open" /\ ret.err = "ok" /\ ret.refs = 0
    /\ RefCount(ret.filename) = 1
    /\ OpenOn(ret.filename) = {ret.m}
    /\ Made("connect")

\* C10: on a closed object every method but close() raises and changes
\* nothing: get, contains, length and keys raise, and set, delete and sync
\* raise and leave the tables, the registry and the objects as they were.
C10_UseAfterCloseFails ==
    [][/\ \A m \in MapIds :
              IsClosed(m) =>
                  LET H == Here
                  IN  /\ \A k \in Keys :
                             /\ getitem(H, maps[m], k).err = "AttributeError"
                             /\ contains(H, maps[m], k).err = "AttributeError"
                      /\ len(H, maps[m]).err = "AttributeError"
                      /\ keys(H, maps[m]).err = "AttributeError"
       /\ (ret'.op \in {"set", "delete", "sync"} /\ ret'.on = None) =>
              /\ ret'.err = "AttributeError"
              /\ ret'.calls = <<>>
              /\ UNCHANGED <<maps, connection_cache, connection_references,
                             connections, disk>>]_vars

\* C10 witness: a set on a closed object raised while a sibling holds the
\* shared connection open.
C10_Witness ==
    /\ ret.op = "set" /\ ret.on = None /\ ret.err = "AttributeError"
    /\ IsClosed(ret.m)
    /\ \E n \in OpenOn(ret.filename) : maps[n].table = maps[ret.m].table

(***************************************************************************)
(* The registry called directly.                                           *)
(***************************************************************************)
\* How far below 0 the direct calls of the model drive a reference count.
MaxUnderflow == 2

\* SQLiteDict.drop_connection(filename), called by the program itself.
DropConnection(filename) ==
    /\ RefCount(filename) > -MaxUnderflow
    /\ LET r == drop_connection(Here, filename)
       IN  Install(r.H, maps,
                   Return("drop", None, <<filename>>, None, filename, r.err, r.H.calls))

\* Objects opened and closed, and releases made on the registry itself.
NextRegistry ==
    \/ \E m \in MapIds :
           \/ \E i \in OpenInputs, lazy \in BOOLEAN, implicit \in BOOLEAN :
                  Open(m, i[1], i[2], lazy, implicit)
           \/ Close(m)
           \/ Del(m)
    \/ \E filename \in DiskFiles : DropConnection(filename)

SpecRegistry == Init /\ [][NextRegistry]_vars

\* C11: drop_connection for a filename with no outstanding reference (never
\* acquired, or released as often as acquired) raises, and leaves the
\* reference count where it was, never below 0.
C11_ReleaseGuarded ==
    (ret.op = "drop" /\ ret.refs <= 0) =>
        /\ ret.err # "ok"
        /\ ret.filename \in DOMAIN connection_references =>
               /\ connection_references[ret.filename] >= 0
               /\ connection_references[ret.filename] = ret.refs

(***************************************************************************)
(* The contents of one table: several keys, and a key stored twice.        *)
(***************************************************************************)
DataKeys == {"a", "b"}

DataSetInputs == {<<"a", "moo">>, <<"a", "stuff">>, <<"b", "moo">>}

\* Objects on the default table of one database file.
NextData ==
    \E m \in MapIds :
        \/ \E lazy \in BOOLEAN, implicit \in BOOLEAN :
               \E filename \in DiskFiles : Open(m, filename, DefaultTable, lazy, implicit)
        \/ \E i \in DataSetInputs : SetItem(m, i[1], i[2])
        \/ \E key \in DataKeys : DelItem(m, key)
        \/ \E key \in DataKeys : GetItem(m, key)
        \/ \E key \in DataKeys : Contains(m, key)
        \/ Length(m)
        \/ KeysOf(m)
        \/ Sync(m)
        \/ Close(m)
        \/ Del(m)

SpecData == Init /\ [][NextData]_vars

\* C12: read-your-writes. A set on an open object, lazy or not, succeeds,
\* and after it every object open on the table gets the value set for the
\* key (whatever value the key had) and contains the key; and what get
\* returns for a key changes only by a set or delete of that key.
C12_ReadYourWrites ==
    [][/\ \A i \in DataSetInputs :
              (ret'.op = "set" /\ ret'.on # None /\ ret'.args = i) =>
                  /\ ret'.err = "ok"
                  /\ \A n \in MapIds :
                         (/\ IsOpen(n)'
                          /\ maps'[n].filename = ret'.filename
                          /\ maps'[n].table = maps'[ret'.m].table) =>
                             /\ getitem(Here, maps[n], i[1])' =
                                    [err |-> "ok", val |-> <<i[2]>>]
                             /\ contains(Here, maps[n], i[1])' =
                                    [err |-> "ok", val |-> <<TRUE>>]
       /\ \A n \in MapIds, k \in DataKeys :
              (/\ IsOpen(n) /\ maps'[n] = maps[n]
               /\ ~(ret'.op \in {"set", "delete"} /\ ret'.args[1] = k)) =>
                  /\ getitem(Here, maps[n], k)' = getitem(Here, maps[n], k)
                  /\ contains(Here, maps[n], k)' = contains(Here, maps[n], k)]_vars

\* C12 witness: a lazy set has replaced the value of a key whose committed
\* row still holds the old one.
C12_Witness ==
    /\ ret.op = "set" /\ ret.err = "ok" /\ ret.args = <<"a", "stuff">>
    /\ maps[ret.m].lazy
    /\ "a" \in DOMAIN disk[ret.filename][DefaultTable]
    /\ disk[ret.filename][DefaultTable]["a"] = "moo"
    /\ getitem(Here, maps[ret.m], "a") = [err |-> "ok", val |-> <<"stuff">>]

\* C13: on an open object whose table has no row for a key, get and delete
\* of the key raise KeyError; a delete of a key that has a row succeeds and
\* removes that row and no other, after which the objects open on the table
\* do not contain the key and get of it raises KeyError.
C13_AbsentKeyRaises ==
    [][/\ \A m \in MapIds, k \in DataKeys :
              (IsOpen(m) /\ k \notin DOMAIN View(m)) =>
                  /\ getitem(Here, maps[m], k) = [err |-> "KeyError", val |-> <<>>]
                  /\ delitem(Here, maps[m], k).err = "KeyError"
       /\ \A m \in MapIds, k \in DataKeys :
              (ret'.op = "delete" /\ ret'.on # None /\ ret'.m = m /\ ret'.args = <<k>>) =>
                      IF k \in DOMAIN View(m)
                      THEN /\ ret'.err = "ok"
                           /\ DOMAIN View(m)' = DOMAIN View(m) \ {k}
                           /\ \A j \in DOMAIN View(m)' : View(m)'[j] = View(m)[j]
                           /\ \A n \in MapIds :
                                  (/\ IsOpen(n)'
                                   /\ maps'[n].filename = ret'.filename
                                   /\ maps'[n].table = maps'[m].table) =>
                                      /\ contains(Here, maps[n], k)' =
                                             [err |-> "ok", val |-> <<FALSE>>]
                                      /\ getitem(Here, maps[n], k)'.err = "KeyError"
                      ELSE ret'.err = "KeyError"]_vars

\* C13 witness: a delete took one row of two out of a table.
C13_Witness ==
    /\ ret.op = "delete" /\ ret.err = "ok" /\ ret.args = <<"a">>
    /\ IsOpen(ret.m)
    /\ DOMAIN View(ret.m) = {"b"}
    /\ getitem(Here, maps[ret.m], "a").err = "KeyError"

\* C14: keys() of an open object is the list of the keys that have a row in
\* its table now: each of them once, in ascending order, whatever the order
\* they were set in.
C14_KeysSorted ==
    \A m \in MapIds :
        IsOpen(m) =>
            LET r == keys(Here, maps[m])
                s == r.val
            IN  /\ r.err = "ok"
                /\ {s[i] : i \in DOMAIN s} = DOMAIN View(m)
                /\ Len(s) = Cardinality(DOMAIN View(m))
                /\ \A i, j \in DOMAIN s : i < j => Rank(s[i]) < Rank(s[j])

\* C14 witness: key "a" was set in a table that already held key "b", and
\* keys() lists it first.
C14_Witness ==
    /\ ret.op = "set" /\ ret.err = "ok" /\ ret.args[1] = "a"
    /\ maps[ret.m].lazy
    /\ DOMAIN disk[ret.filename][DefaultTable] = {"b"}
    /\ keys(Here, maps[ret.m]) = [err |-> "ok", val |-> <<"a", "b">>]

\* C15: len() of an open object counts the keys set and not since deleted
\* in its table: a set (through an open object) of a key with no row raises
\* it by 1, a set of a key with a row leaves it, a delete that succeeds lowers it by 1, a delete
\* that raises leaves it, and no other call of an object changes it.
C15_LengthCounts ==
    [][\A m \in MapIds :
          (IsOpen(m) /\ maps'[m] = maps[m]) =>
              LET before == len(Here, maps[m])
                  after  == len(Here, maps[m])'
                  had(k) == k \in DOMAIN View(m)
              IN  /\ before.err = "ok" /\ after.err = "ok"
                  /\ before.val = <<Cardinality(DOMAIN View(m))>>
                  /\ \A k \in DataKeys :
                         /\ (ret'.op = "set" /\ ret'.on # None /\ ret'.args[1] = k /\ ~had(k)) =>
                                after.val[1] = before.val[1] + 1
                         /\ (ret'.op = "set" /\ ret'.on # None /\ ret'.args[1] = k /\ had(k)) =>
                                after.val[1] = before.val[1]
                         /\ (ret'.op = "delete" /\ ret'.args[1] = k /\ ret'.err = "ok") =>
                                had(k) /\ after.val[1] = before.val[1] - 1
                         /\ (ret'.op = "delete" /\ ret'.args[1] = k /\ ret'.err # "ok") =>
                                after.val[1] = before.val[1]
                  /\ ret'.op \notin {"set", "delete"} => after.val = before.val]_vars

\* C15 witness: a delete of a key with no row raised, and the one row of the
\* table is still counted.
C15_Witness ==
    /\ ret.op = "delete" /\ ret.err = "KeyError" /\ ret.args = <<"a">>
    /\ IsOpen(ret.m)
    /\ len(Here, maps[ret.m]) = [err |-> "ok", val |-> <<1>>]
    /\ DOMAIN View(ret.m) = {"b"}

dumps(item) == "S'" \o item \o "'\np1\n."

\* pickle.loads(s): the str between the opcode and the memo suffix; anything
\* else is not a pickle the model's objects produce, and raises.
loads(s) ==
    LET n == Len(s)
    IN  IF /\ n >= Len(dumps(""))
           /\ SubSeq(s, 1, Len("S'")) = "S'"
           /\ SubSeq(s, n - Len("'\np1\n.") + 1, n) = "'\np1\n."
        THEN [err |-> "ok", val |-> <<SubSeq(s, Len("S'") + 1, n - Len("'\np1\n."))>>]
        ELSE [err |-> "UnpicklingError", val |-> <<>>]

\* SQLiteShelf.__getitem__; loads lists the arguments pickle.loads was
\* called with.
shelf_getitem(H, self, key) ==
    LET r == getitem(H, self, key)
    IN  IF r.err # "ok"
        THEN [err |-> r.err, val |-> <<>>, loads |-> <<>>]
        ELSE LET l == loads(r.val[1])
             IN  [err |-> l.err, val |-> l.val, loads |-> <<r.val[1]>>]

\* __setitem__ storing the item itself, not its pickle.
shelf_setitem_unpickled(H, self, key, item) == setitem(H, self, key, item)

\* SQLiteShelf.__setitem__
shelf_setitem(H, self, key, item) == setitem(H, self, key, dumps(item))

\* key in self, on a SQLiteShelf: DictMixin calls the shelf's __getitem__.
shelf_contains(H, self, key) ==
    LET r == shelf_getitem(H, self, key)
    IN  IF r.err = "ok" THEN [err |-> "ok", val |-> <<TRUE>>]
        ELSE IF r.err = "KeyError" THEN [err |-> "ok", val |-> <<FALSE>>]
        ELSE [err |-> r.err, val |-> <<>>]

\* __delitem__, inherited by SQLiteShelf.
shelf_delitem(H, self, key) ==
    LET r == shelf_contains(H, self, key)
    IN  IF r.err # "ok" THEN [H |-> H, err |-> r.err]
        ELSE IF r.val = <<FALSE>> THEN [H |-> H, err |-> "KeyError"]
        ELSE maybe_sync(
                 ExecuteDML(H, self.conn,
                     DeleteFrom(H.conns[self.conn].visible, self.table, key)),
                 self)

\* m[key] = item, m a SQLiteShelf
ShelfSetItem(m, key, item) ==
    /\ maps[m].alive
    /\ LET r == shelf_setitem(Here, maps[m], key, item)
       IN  Install(r.H, maps,
                   Return("set", m, <<key, item>>, maps[m].conn, maps[m].filename,
                          r.err, r.H.calls))

\* m[key], m a SQLiteShelf
ShelfGetItem(m, key) ==
    /\ maps[m].alive
    /\ shelf_getitem(Here, maps[m], key).err \in
           {"ok", "KeyError", "AttributeError", "ProgrammingError",
            "OperationalError", "UnpicklingError"}
    /\ UNCHANGED vars

\* del m[key], m a SQLiteShelf
ShelfDelItem(m, key) ==
    /\ maps[m].alive
    /\ LET r == shelf_delitem(Here, maps[m], key)
       IN  Install(r.H, maps,
                   Return("delete", m, <<key>>, maps[m].conn, maps[m].filename,
                          r.err, r.H.calls))

\* SQLiteShelf objects on the default table of one database file.
NextShelf ==
    \E m \in MapIds :
        \/ \E lazy \in BOOLEAN, implicit \in BOOLEAN :
               \E filename \in DiskFiles : Open(m, filename, DefaultTable, lazy, implicit)
        \/ \E i \in DataSetInputs : ShelfSetItem(m, i[1], i[2])
        \/ \E key \in DataKeys : ShelfGetItem(m, key)
        \/ \E key \in DataKeys : ShelfDelItem(m, key)
        \/ Close(m)
        \/ Del(m)

SpecShelf == Init /\ [][NextShelf]_vars

\* C17: after shelf[k] = x on an open SQLiteShelf, shelf[k] of the shelves
\* open on the table returns x, while the row of the table holds
\* pickle.dumps(x), which is not x; and shelf[k] for a key with no row raises
\* KeyError without pickle.loads being called.
C17_ShelfRoundTrip ==
    [][/\ \A i \in DataSetInputs :
              (ret'.op = "set" /\ ret'.on # None /\ ret'.args = i) =>
                  /\ ret'.err = "ok"
                  /\ dumps(i[2]) # i[2]
                  /\ \A n \in MapIds :
                         (/\ IsOpen(n)'
                          /\ maps'[n].filename = ret'.filename
                          /\ maps'[n].table = maps'[ret'.m].table) =>
                             /\ shelf_getitem(Here, maps[n], i[1])' =
                                    [err |-> "ok", val |-> <<i[2]>>,
                                     loads |-> <<dumps(i[2])>>]
                             /\ getitem(Here, maps[n], i[1])' =
                                    [err |-> "ok", val |-> <<dumps(i[2])>>]
       /\ \A m \in MapIds, k \in DataKeys :
              (IsOpen(m) /\ k \notin DOMAIN View(m)) =>
                  shelf_getitem(Here, maps[m], k) =
                      [err |-> "KeyError", val |-> <<>>, loads |-> <<>>]]_vars

\* C17 witness: "stuff" was stored under a key of a shelf; the row holds its
\* pickle and the shelf returns "stuff".
C17_Witness ==
    /\ ret.op = "set" /\ ret.err = "ok" /\ ret.args = <<"a", "stuff">>
    /\ IsOpen(ret.m)
    /\ View(ret.m)["a"] = "S'stuff'\np1\n."
    /\ shelf_getitem(Here, maps[ret.m], "a").val = <<"stuff">>
    /\ shelf_getitem(Here, maps[ret.m], "b").err = "KeyError"

\* What was visible through the cached connection of filename, or on disk
\* when there is none.
Seen(filename) ==
    IF filename \in DOMAIN connection_cache
    THEN connections[connection_cache[filename]].visible
    ELSE disk[filename]

\* The open just returned constructed an object that is not lazy: it called
\* commit() and left nothing of the connection uncommitted, the object's
\* table being on disk.
EagerOpenCommits ==
    (ret'.op = "open" /\ ret'.err = "ok" /\ ~ret'.args[3]) =>
        /\ \E i \in DOMAIN ret'.calls : ret'.calls[i][2] = "commit"
        /\ NothingPending(connection_cache[ret.filename])'
        /\ \A f \in DiskFiles, t \in Tables :
               ret'.args = <<f, t, FALSE>> =>
                   /\ t \in DOMAIN disk'[f]
                   /\ disk'[f] = CreateTable(Seen(f), t)

\* C18: open() applies the object's commit policy after creating the
\* schema: an open that is not lazy commits the shared connection at once,
\* and a lazy open makes no commit and leaves what is on disk unchanged.
C18_OpenAppliesPolicy ==
    [][/\ EagerOpenCommits
       /\ (ret'.op = "open" /\ ret'.err = "ok" /\ ret'.args[3]) =>
              /\ \A i \in DOMAIN ret'.calls : ret'.calls[i][2] # "commit"
              /\ disk' = disk]_vars

\* C18 as the code has it: an open that is not lazy commits the shared
\* connection at once; a lazy open calls no commit(), and what is on disk
\* changes by what sqlite3 does for the CREATE statements alone: with no
\* transaction open the object's table is created on disk at once, and with
\* one open either nothing reaches the disk or sqlite3 commits the
\* transaction before the statement and the table after it.
C18_OpenAppliesPolicyAmended ==
    [][/\ EagerOpenCommits
       /\ \A f \in DiskFiles, t \in Tables :
              (ret'.op = "open" /\ ret'.err = "ok" /\ ret'.args = <<f, t, TRUE>>) =>
                  /\ \A i \in DOMAIN ret'.calls : ret'.calls[i][2] # "commit"
                  /\ \A g \in DiskFiles \ {f} : disk'[g] = disk[g]
                  /\ IF ret'.pending
                     THEN \/ disk' = disk /\ Pending(connection_cache[f])'
                          \/ /\ disk'[f] = CreateTable(Seen(f), t)
                             /\ NothingPending(connection_cache[f])'
                     ELSE /\ disk'[f] = CreateTable(disk[f], t)
                          /\ NothingPending(connection_cache[f])']_vars

\* C18 witness: a lazy open, calling no commit(), found a transaction open
\* and left the rows a lazy sibling had pending on disk.
C18_Witness ==
    /\ ret.op = "open" /\ ret.err = "ok" /\ ret.args[3] /\ ret.pending
    /\ ~Made("commit")
    /\ NothingPending(maps[ret.m].conn)
    /\ \A n \in OpenOn(ret.filename) : maps[n].lazy
    /\ \E n \in OpenOn(ret.filename) :
           n # ret.m /\ disk[ret.filename][maps[n].table] # EmptyRows

\* C19: whatever objects were opened, closed and finalized, the reference
\* count stored for a filename is the number of objects opened on it and not
\* yet closed (a filename with no count has none), so it is never negative;
\* and the cache has an entry for the filename exactly when that number is
\* greater than 0.
C19_CountIsOpenObjects ==
    \A f \in Filenames :
        LET open == Cardinality(OpenOn(f))
        IN  /\ f \in DOMAIN connection_references =>
                   /\ connection_references[f] = open
                   /\ connection_references[f] >= 0
            /\ f \notin DOMAIN connection_references => open = 0
            /\ f \in DOMAIN connection_cache <=> open > 0

\* C19 witness: the finalizer released one of two objects open on a file;
\* the count is 1 and the entry is still cached.
C19_Witness ==
    /\ ret.op = "del" /\ ret.on # None /\ ret.err = "ok" /\ ret.refs = 2
    /\ connection_references[ret.filename] = 1
    /\ Cardinality(OpenOn(ret.filename)) = 1
    /\ ret.filename \in DOMAIN connection_cache

\* C20: reads and failed mutations have no effect. A get, contains, len or
\* keys, and a delete that raises KeyError, leave the objects, the rows
\* visible and committed on every connection, the disk and the registry as
\* they were, and call no commit(): a transaction open on the connection
\* (a lazy sibling's work) stays open, also when the object is not lazy.
C20_ReadsChangeNothing ==
    [][/\ (ret'.op = "delete" /\ ret'.err = "KeyError") =>
              /\ ret'.calls = <<>>
              /\ UNCHANGED <<maps, connection_cache, connection_references,
                             connections, disk>>
              /\ ret'.pending => Pending(ret.on)'
       /\ \/ UNCHANGED <<maps, connection_cache, connection_references,
                         connections, disk>>
          \/ \A m \in MapIds :
                 /\ \A k \in Keys : ~GetItem(m, k) /\ ~Contains(m, k)
                 /\ ~Length(m)
                 /\ ~KeysOf(m)]_vars

\* C20 witness: a delete on an object that is not lazy raised KeyError while
\* a lazy sibling's rows were uncommitted, and they still are.
C20_Witness ==
    /\ ret.op = "delete" /\ ret.err = "KeyError" /\ ret.pending
    /\ IsOpen(ret.m) /\ ~maps[ret.m].lazy
    /\ Pending(maps[ret.m].conn)
    /\ \E n \in OpenOn(ret.filename) :
           /\ maps[n].lazy
           /\ View(n) # EmptyRows
           /\ disk[ret.filename][maps[n].table] = EmptyRows
====
